---- MODULE Spec2Model ----
(***************************************************************************)
(* Model of src/src/coalescent.rs: the n-coalescent process                *)
(* Coalescent<R> { state: PartitionVec<()>, rng: R }, its Iterator::next,  *)
(* generate_realization, state/set_state and the derived Clone.            *)
(*                                                                         *)
(* A PartitionVec<()> is modelled by its value: the set of its blocks.     *)
(* A random source R is a generator held by value (StdRng, SmallRng, ...): *)
(* it is modelled by a cursor into one stream of raw words; a duplicated   *)
(* source has its own cursor into the same stream, as a cloned generator   *)
(* replays the words of the one it was cloned from.  A word of the stream  *)
(* is fixed the first time any source reads it; tape holds the fixed words *)
(* that some live source has still to read.                                *)
(* rand::thread_rng() is a separate, unseeded source: each of its samples  *)
(* is an arbitrary positive time.                                          *)
(***************************************************************************)
EXTENDS Integers, Sequences, FiniteSets

\* Largest group_size passed to new().
MaxN == 3
\* Number of distinct raw words a random source can emit.
RngModulus == 3
\* Length of the explored prefix of the stream of the process's own source.
MaxDraws == 3
\* Number of distinct positive waiting times thread_rng() can yield.
MaxTime == 2

VARIABLES
    state,      \* self.state: the current partition, a set of blocks
    rng,        \* self.rng: the cursor of the process's own source
    tape,       \* the fixed words of the stream from the hindmost live cursor on
    other,      \* a second Coalescent obtained by clone(), or NoProc
    kept,       \* a partition value held by the caller
    op,         \* the last operation called
    ret,        \* what the last operation returned
    size,       \* group_size given to the last new()
    steps       \* event-producing next() calls on self since new(),
                \* -1 once set_state has replaced the state

vars == <<state, rng, tape, other, kept, op, ret, size, steps>>

Words == 0 .. (RngModulus - 1)
Times == 1 .. MaxTime
NoProc == [live |-> FALSE]

---------------------------------------------------------------------------
(* PartitionVec<()> (crate partitions), by value.                          *)

\* Mutant of Singletons: the elements are numbered from 1.
Singletons_from_one(n) == {{i} : i \in 1 .. n}

\* PartitionVec::from(vec of group_size units): every element its own set.
Singletons(n) == {{i} : i \in 0 .. (n - 1)}

amount_of_sets(p) == Cardinality(p)

MinOf(S) == CHOOSE x \in S : \A y \in S : x <= y

\* The element of a one-element set.  Only({f(x) : x \in {e}}) is f(e) with e
\* evaluated once, however often f uses it.
Only(S) == CHOOSE x \in S : TRUE

\* all_sets(): the sets in the order of their smallest index.
RECURSIVE all_sets(_)
all_sets(p) ==
    IF p = {} THEN <<>>
    ELSE Only({<<b>> \o all_sets(p \ {b}) :
                  b \in {c \in p : MinOf(UNION p) \in c}})

\* Iterator::nth on a sequence (0-based).
nth(s, i) == s[i + 1]

\* all_sets().nth(set_index).unwrap().nth(0).unwrap(): an index of that set.
\* union joins the same two sets whichever index of a set comes first; the
\* smallest stands for it.
value_index(p, set_index) ==
    Only({MinOf(set) : set \in {nth(all_sets(p), set_index)}})

\* Mutant of union: every set is merged into one.
union_all(p, a, b) == {UNION p}

\* Mutant of union: the set holding b is joined to the first set, whichever
\* set holds a.
union_with_first(p, a, b) ==
    LET A == CHOOSE c \in p : MinOf(UNION p) \in c
        B == CHOOSE c \in p : b \in c
    IN  (p \ {A, B}) \cup {A \cup B}

\* union(a, b): the sets holding a and b become one set.
union(p, a, b) ==
    LET A == CHOOSE c \in p : a \in c
        B == CHOOSE c \in p : b \in c
    IN  (p \ {A, B}) \cup {A \cup B}

\* Every partition of 0 .. n-1: the values a PartitionVec<()> of length n takes.
RECURSIVE PartitionsOf(_)
PartitionsOf(n) ==
    IF n = 0 THEN {{}}
    ELSE LET e == n - 1
         IN  UNION {{q \cup {{e}}} \cup {(q \ {b}) \cup {b \cup {e}} : b \in q} :
                    q \in PartitionsOf(n - 1)}

\* The partitions the caller passes to set_state of a process built with
\* group_size n: those of 0 .. n-1, and the empty one.
SetStateInputs(n) == PartitionsOf(n) \cup {{}}

---------------------------------------------------------------------------
(* Pair selection.                                                         *)

\* (0..k).tuple_combinations(): the pairs (i, j), i < j, in lexicographic order.
RECURSIVE combinations_from(_, _, _)
combinations_from(i, j, k) ==
    IF i >= k - 1 THEN <<>>
    ELSE IF j >= k THEN combinations_from(i + 1, i + 2, k)
    ELSE <<<<i, j>>>> \o combinations_from(i, j + 1, k)

\* Mutant of tuple_combinations: the enumeration starts at the pair (0, 0).
tuple_combinations_from_self(k) == combinations_from(0, 0, k)

tuple_combinations(k) == combinations_from(0, 1, k)

\* The upper end of the range drawn from.
pair_count(k) == (k * (k - 1)) \div 2

\* rng.gen_range(0, high) from one raw word w: the word scaled into [0, high).
gen_range(w, high) == (w * high) \div RngModulus

---------------------------------------------------------------------------
(* Return values.                                                          *)

RetUnit == [kind |-> "unit"]
RetNone == [kind |-> "none"]
RetPanic == [kind |-> "panic"]
RetSome(item, rate) == [kind |-> "some", item |-> item, rate |-> rate]
RetVec(items) == [kind |-> "vec", items |-> items]

---------------------------------------------------------------------------
(* Iterator::next on a process value p = [state, rng], given the stream tp *)
(* its own source reads and the time t thread_rng() yields.                *)

\* Mutant of is_terminal: the iteration ends one merge early.
is_terminal_early(p) == amount_of_sets(p.state) <= 2

\* Mutant of is_terminal: the check tests for no set at all.
is_terminal_zero(p) == amount_of_sets(p.state) = 0

\* Mutant of is_terminal: a partition of no block ends the iteration too.
is_terminal_at_most_one(p) == amount_of_sets(p.state) <= 1

\* if current_partition_size == 1
is_terminal(p) == amount_of_sets(p.state) = 1

\* Exp::new(rate).unwrap() with rate 0, or gen_range(0, 0): the call panics
\* before it reads its source or touches the state.
panics(p) == pair_count(amount_of_sets(p.state)) <= 0

\* self.rng().gen_range(..) on a source that has no word at its cursor (an
\* exhausted or failing R): the draw panics, before the state is touched.
source_fails(p, tp) == (p.rng + 1) \notin DOMAIN tp

\* The words next() reads from the process's own source.
draws(p) == IF is_terminal(p) \/ panics(p) THEN 0 ELSE 1

\* Mutant of next_some: the time drawn from thread_rng() is mixed into the
\* word the pair is chosen by.
next_some_timed(p, w, t) ==
    LET current_partition_size == amount_of_sets(p.state)
        next_partition_index ==
            gen_range((w + t) % RngModulus, pair_count(current_partition_size))
        pair == nth(tuple_combinations(current_partition_size),
                    next_partition_index)
        new_state == union(p.state, value_index(p.state, pair[1]),
                           value_index(p.state, pair[2]))
    IN  [self |-> [state |-> new_state, rng |-> p.rng + 1],
         ret |-> RetSome([time |-> t, partition |-> new_state],
                         current_partition_size)]

\* Mutant of next_some: the rate of the time is the number of pairs.
next_some_pair_rate(p, w, t) ==
    LET current_partition_size == amount_of_sets(p.state)
        pair == nth(tuple_combinations(current_partition_size),
                    gen_range(w, pair_count(current_partition_size)))
        new_state == union(p.state, value_index(p.state, pair[1]),
                           value_index(p.state, pair[2]))
    IN  [self |-> [state |-> new_state, rng |-> p.rng + 1],
         ret |-> RetSome([time |-> t, partition |-> new_state],
                         pair_count(current_partition_size))]

\* The else branch: one time, one pair, one union.
next_some(p, w, t) ==
    LET current_partition_size == amount_of_sets(p.state)
        next_partition_index ==
            gen_range(w, pair_count(current_partition_size))
        pair == nth(tuple_combinations(current_partition_size),
                    next_partition_index)
        value_index_1 == value_index(p.state, pair[1])
        value_index_2 == value_index(p.state, pair[2])
    IN  Only({[self |-> [state |-> new_state, rng |-> p.rng + 1],
               ret |-> RetSome([time |-> t, partition |-> new_state],
                               current_partition_size)] :
              new_state \in {union(p.state, a, b) :
                                a \in {value_index_1}, b \in {value_index_2}}})

next(p, tp, t) ==
    IF is_terminal(p) THEN [self |-> p, ret |-> RetNone]
    ELSE IF panics(p) \/ source_fails(p, tp) THEN [self |-> p, ret |-> RetPanic]
    ELSE next_some(p, tp[p.rng + 1], t)

\* clone(): both fields duplicated.
clone(p) == [state |-> p.state, rng |-> p.rng]

\* Mutant of set_state: the given state is not stored.
set_state_ignored(p, s) == p

\* set_state(state).
set_state(p, s) == [state |-> s, rng |-> p.rng]

\* Mutant of collect: the items share one partition, so that every item shows
\* the partition of the last one.
RECURSIVE collect_aliased(_, _, _)
collect_aliased(p, tp, ts) ==
    IF is_terminal(p) THEN <<>>
    ELSE IF panics(p) \/ source_fails(p, tp) THEN <<RetPanic>>
    ELSE LET r == next_some(p, tp[p.rng + 1], ts[1])
             rest == collect_aliased(r.self, tp, Tail(ts))
         IN  IF rest = <<>> \/ rest[Len(rest)] = RetPanic
             THEN <<r.ret.item>> \o rest
             ELSE <<[time |-> r.ret.item.time,
                     partition |-> rest[Len(rest)].partition]>> \o rest

\* The items a process yields when iterated until next() returns None,
\* taking its times from ts; a panicking next() ends them with RetPanic.
RECURSIVE collect(_, _, _)
collect(p, tp, ts) ==
    IF is_terminal(p) THEN <<>>
    ELSE IF panics(p) \/ source_fails(p, tp) THEN <<RetPanic>>
    ELSE Only({<<r.ret.item>> \o collect(r.self, tp, Tail(ts)) :
                  r \in {next_some(p, tp[p.rng + 1], ts[1])}})

\* Mutant of generate_realization: self is iterated in place of a clone and
\* the snapshot is not written back.
RECURSIVE run_to_end(_, _)
run_to_end(p, tp) ==
    IF is_terminal(p) \/ panics(p) \/ source_fails(p, tp) THEN p
    ELSE run_to_end(next_some(p, tp[p.rng + 1], 1).self, tp)

generate_realization_in_place(p, tp, ts) ==
    [self |-> run_to_end(p, tp),
     ret |-> RetVec(<<[time |-> 0, partition |-> p.state]>> \o collect(p, tp, ts))]

\* Mutant of generate_realization: the starting point is left out.
generate_realization_no_start(p, tp, ts) ==
    [self |-> p, ret |-> RetVec(collect(clone(p), tp, ts))]

\* Mutant of generate_realization: self is iterated in place of a clone and
\* the snapshot is written back only when the iteration ends without a panic.
generate_realization_unrestored(p, tp, ts) ==
    LET initial_state == p.state
        result == <<[time |-> 0, partition |-> initial_state]>>
                     \o collect(p, tp, ts)
    IN  IF result[Len(result)] = RetPanic
        THEN [self |-> run_to_end(p, tp), ret |-> RetPanic]
        ELSE [self |-> set_state(run_to_end(p, tp), initial_state),
              ret |-> RetVec(result)]

\* Mutant of generate_realization: the first entry is the partition of
\* singletons, whatever the current partition is.
generate_realization_from_singletons(p, tp, ts) ==
    LET result == <<[time |-> 0, partition |-> {{x} : x \in UNION p.state}]>>
                     \o collect(clone(p), tp, ts)
    IN  IF result[Len(result)] = RetPanic
        THEN [self |-> p, ret |-> RetPanic]
        ELSE [self |-> p, ret |-> RetVec(result)]

\* generate_realization(): the panic of a next() propagates and leaves self
\* as it is; otherwise the snapshot is written back.
generate_realization(p, tp, ts) ==
    LET initial_state == p.state
        starting_point == <<[time |-> 0, partition |-> initial_state]>>
        result == starting_point \o collect(clone(p), tp, ts)
    IN  IF result[Len(result)] = RetPanic
        THEN [self |-> p, ret |-> RetPanic]
        ELSE [self |-> set_state(p, initial_state), ret |-> RetVec(result)]

\* The most words generate_realization() reads from the clone's source.
realization_draws(p) ==
    IF amount_of_sets(p.state) = 0 THEN 0 ELSE amount_of_sets(p.state) - 1

---------------------------------------------------------------------------

Self == [state |-> state, rng |-> rng]

Min2(a, b) == IF a <= b THEN a ELSE b

\* The hindmost cursor among the sources of the processes r and o.
BaseOf(r, o) == IF o.live THEN Min2(r, o.self.rng) ELSE r

Base == BaseOf(rng, other)

\* The tapes that agree with tape and fix the stream up to position upto.
Extensions(upto) ==
    IF upto <= Base + Len(tape) THEN {tape}
    ELSE {tape \o e : e \in [1 .. (upto - Base - Len(tape)) -> Words]}

\* The stream a tape fixes, by position: a source at cursor c reads word c + 1.
Stream(tp) == [i \in (Base + 1) .. (Base + Len(tp)) |-> tp[i - Base]]

\* The stream of a source that fails at every read past position limit.
Upto(s, limit) == [i \in {x \in DOMAIN s : x <= limit} |-> s[i]]

\* The tape once the hindmost cursor is at newBase.
Trim(tp, newBase) == SubSeq(tp, newBase - Base + 1, Len(tp))

---------------------------------------------------------------------------

Init ==
    /\ \E n \in 0 .. MaxN : state = Singletons(n) /\ size = n
    /\ rng = 0
    /\ tape = <<>>
    /\ other = NoProc
    /\ kept = {}
    /\ op = "new"
    /\ ret = RetUnit
    /\ steps = 0

\* Coalescent::new(group_size, rng) with a fresh source: a new run begins.
New ==
    \E n \in 0 .. MaxN :
        /\ state' = Singletons(n)
        /\ size' = n
        /\ rng' = 0
        /\ tape' = <<>>
        /\ steps' = 0
        /\ op' = "new"
        /\ ret' = RetUnit
        /\ other' = NoProc
        /\ kept' = {}

\* self.next()
Step ==
    /\ op' = "next"
    /\ rng + draws(Self) <= MaxDraws
    /\ \E tp \in Extensions(rng + draws(Self)), t \in Times :
         \E r \in {next(Self, Stream(tp), t)} :
            /\ tape' = Trim(tp, BaseOf(r.self.rng, other))
            /\ state' = r.self.state
            /\ rng' = r.self.rng
            /\ ret' = r.ret
            /\ steps' = IF steps >= 0 /\ r.ret.kind = "some"
                        THEN steps + 1 ELSE steps
    /\ UNCHANGED <<other, kept, size>>

\* self.generate_realization()
GenerateRealization ==
    /\ op' = "generate_realization"
    /\ rng + realization_draws(Self) <= MaxDraws
    /\ \E tp \in Extensions(rng + realization_draws(Self)),
          ts \in [1 .. realization_draws(Self) -> Times] :
         \E r \in {generate_realization(Self, Stream(tp), ts)} :
            /\ tape' = Trim(tp, BaseOf(r.self.rng, other))
            /\ state' = r.self.state
            /\ rng' = r.self.rng
            /\ ret' = r.ret
    /\ UNCHANGED <<other, kept, size, steps>>

\* self.generate_realization() with a source that fails at one of the draws
\* of the call: the words before it are read, then a next() panics.
GenerateRealizationFailing ==
    /\ op' = "generate_realization"
    /\ rng + realization_draws(Self) <= MaxDraws
    /\ \E limit \in rng .. (rng + realization_draws(Self) - 1) :
         \E tp \in Extensions(limit), ts \in [1 .. (limit - rng) -> Times] :
            \E r \in {generate_realization(Self, Upto(Stream(tp), limit), ts)} :
               /\ tape' = Trim(tp, BaseOf(r.self.rng, other))
               /\ state' = r.self.state
               /\ rng' = r.self.rng
               /\ ret' = r.ret
    /\ UNCHANGED <<other, kept, size, steps>>

\* self.set_state(p.clone()): the caller passes a copy of p and keeps p.
SetState ==
    \E p \in SetStateInputs(size) :
        \E r \in {set_state(Self, p)} :
            /\ state' = r.state
            /\ rng' = r.rng
            /\ kept' = p
            /\ op' = "set_state"
            /\ ret' = RetUnit
            /\ steps' = -1
            /\ UNCHANGED <<tape, other, size>>

\* The caller keeps the partition of an event it was returned, by next() or
\* in a realization.
KeepEvent ==
    /\ ret.kind \in {"some", "vec"}
    /\ \E e \in (IF ret.kind = "some" THEN {ret.item}
                  ELSE {ret.items[i] : i \in 1 .. Len(ret.items)}) :
          kept' = e.partition
    /\ kept' /= kept
    /\ op' = "caller.keep"
    /\ UNCHANGED <<state, rng, tape, other, ret, size, steps>>

\* The caller changes the partition it kept: kept.union(a, b).
CallerUnion ==
    \E a \in UNION kept, b \in UNION kept :
        /\ kept' = union(kept, a, b)
        /\ kept' /= kept
        /\ op' = "caller.union"
        /\ ret' = RetUnit
        /\ UNCHANGED <<state, rng, tape, other, size, steps>>

\* self.clone(): a second process.
Clone ==
    /\ other' = [live |-> TRUE, self |-> clone(Self)]
    /\ op' = "clone"
    /\ ret' = RetUnit
    /\ tape' = Trim(tape, rng)
    /\ UNCHANGED <<state, rng, kept, size, steps>>

\* Mutant of StepOther: the clone shares the source of the process, so its
\* next() moves the cursor of both.
StepOtherShared ==
    /\ other.live
    /\ op' = "other.next"
    /\ other.self.rng + draws(other.self) <= MaxDraws
    /\ \E tp \in Extensions(other.self.rng + draws(other.self)), t \in Times :
         \E r \in {next(other.self, Stream(tp), t)} :
            /\ other' = [live |-> TRUE, self |-> r.self]
            /\ rng' = r.self.rng
            /\ tape' = Trim(tp, r.self.rng)
            /\ ret' = r.ret
    /\ UNCHANGED <<state, kept, size, steps>>

\* next() on the second process.
StepOther ==
    /\ other.live
    /\ op' = "other.next"
    /\ other.self.rng + draws(other.self) <= MaxDraws
    /\ \E tp \in Extensions(other.self.rng + draws(other.self)), t \in Times :
         \E r \in {next(other.self, Stream(tp), t)} :
            /\ other' = [live |-> TRUE, self |-> r.self]
            /\ tape' = Trim(tp, Min2(rng, r.self.rng))
            /\ ret' = r.ret
    /\ UNCHANGED <<state, rng, kept, size, steps>>

Next ==
    \/ New
    \/ Step
    \/ GenerateRealization
    \/ SetState

Spec == Init /\ [][Next]_vars

\* The process and the partition its caller passes in and keeps.
NextCaller ==
    \/ New
    \/ Step
    \/ SetState
    \/ CallerUnion

SpecCaller == Init /\ [][NextCaller]_vars

\* The process and a clone of it, each stepped on its own.
NextClone ==
    \/ New
    \/ Step
    \/ Clone
    \/ StepOther

SpecClone == Init /\ [][NextClone]_vars

\* One process from new(), stepped until it yields no more; a clone of it
\* may be made and stepped in between.
NextRun ==
    \/ Step
    \/ Clone
    \/ StepOther

SpecRun == Init /\ [][NextRun]_vars /\ WF_vars(Step)

\* The process with a source that may fail during generate_realization().
NextFail ==
    \/ New
    \/ Step
    \/ GenerateRealization
    \/ GenerateRealizationFailing

SpecFail == Init /\ [][NextFail]_vars

\* The process and the event partitions its caller keeps.
NextEvents ==
    \/ New
    \/ Step
    \/ GenerateRealization
    \/ KeepEvent

SpecEvents == Init /\ [][NextEvents]_vars

---------------------------------------------------------------------------
(* Properties.                                                             *)

\* The block {0, ..., n-1}.
FullBlock(n) == 0 .. (n - 1)

\* No set_state since new(group_size >= 1): only next() and
\* generate_realization() have acted on the process.
FromNew == steps >= 0 /\ size >= 1

\* C1: on a process reached from new(n), n >= 1, by next() calls, a
\* generate_realization() call leaves the current partition as it was.
C1_RealizationKeepsState ==
    [][(FromNew /\ op' = "generate_realization") => state' = state]_vars

\* C1 witness: a realization of two or more entries returned after a merge.
C1_Witness ==
    /\ op = "generate_realization"
    /\ FromNew /\ steps >= 1
    /\ ret.kind = "vec" /\ Len(ret.items) >= 2

\* C2 (as claimed): generate_realization() on a process of more than one
\* block advances the cursor of the process's own source.
C2_RealizationAdvancesRng ==
    [][(op' = "generate_realization" /\ amount_of_sets(state) > 1)
          => rng' /= rng]_vars

\* C3: generate_realization() on a fresh new(n), n >= 1, returns n entries of
\* n, n-1, ..., 1 blocks, from (0.0, singletons) to the single full block.
C3_FreshRealization ==
    (op = "generate_realization" /\ steps = 0 /\ size >= 1) =>
        /\ ret.kind = "vec"
        /\ Len(ret.items) = size
        /\ \A i \in 1 .. size :
              amount_of_sets(ret.items[i].partition) = size - i + 1
        /\ ret.items[1] = [time |-> 0, partition |-> Singletons(size)]
        /\ ret.items[size].partition = {FullBlock(size)}

\* C3 witness: the realization of a fresh process of MaxN elements.
C3_Witness ==
    /\ op = "generate_realization" /\ steps = 0 /\ size = MaxN
    /\ ret.kind = "vec" /\ Len(ret.items) = MaxN

\* C4 (as claimed): whatever next() calls came before, the realization has
\* n entries and starts from (0.0, singletons).
C4_AlwaysFullLength ==
    (op = "generate_realization" /\ FromNew) =>
        /\ ret.kind = "vec"
        /\ Len(ret.items) = size
        /\ ret.items[1] = [time |-> 0, partition |-> Singletons(size)]
        /\ ret.items[Len(ret.items)].partition = {FullBlock(size)}

\* C4 (amended): the realization has as many entries as the process has
\* blocks, starts from (0.0, the current partition) and ends with the single
\* full block.
C4_LengthIsBlockCount ==
    (op = "generate_realization" /\ FromNew) =>
        /\ ret.kind = "vec"
        /\ Len(ret.items) = amount_of_sets(state)
        /\ Len(ret.items) = size - steps
        /\ ret.items[1] = [time |-> 0, partition |-> state]
        /\ ret.items[Len(ret.items)].partition = {FullBlock(size)}

\* C4 witness: a realization of two entries taken after one merge of three.
C4_Witness ==
    /\ op = "generate_realization" /\ size = 3 /\ steps = 1
    /\ ret.kind = "vec" /\ Len(ret.items) = 2

\* C5 (as claimed): next() returns None when there is one block and, for
\* every other block count, an event with one block less.  Stated for the
\* processes built with group_size >= 1.
C5_NoneIffOneBlock ==
    [][(op' = "next" /\ size >= 1) =>
          IF amount_of_sets(state) = 1
          THEN ret'.kind = "none"
          ELSE /\ ret'.kind = "some"
               /\ amount_of_sets(state') = amount_of_sets(state) - 1]_vars

\* C5 (amended): next() returns None when there is one block; with two or
\* more blocks it returns an event and leaves one block less; with no block
\* it panics, returning nothing and leaving the state as it was.
C5_StepByBlockCount ==
    [][op' = "next" =>
          IF amount_of_sets(state) = 1
          THEN ret'.kind = "none" /\ state' = state
          ELSE IF amount_of_sets(state) >= 2
          THEN /\ ret'.kind = "some"
               /\ amount_of_sets(state') = amount_of_sets(state) - 1
               /\ ret'.item.partition = state'
          ELSE ret'.kind = "panic" /\ state' = state]_vars

\* C5 witness: the second event-producing next() since new().
C5_Witness == op = "next" /\ ret.kind = "some" /\ steps = 2

\* C6: with one block, next() returns None and changes neither the partition
\* nor the process's own source; so does the first next() after new(1).
C6_OneBlockAbsorbing ==
    [][(amount_of_sets(state) = 1 /\ op' = "next") =>
          (ret' = RetNone /\ state' = state /\ rng' = rng)]_vars

\* C6 witness: the first next() after new(1) has returned None.
C6_Witness ==
    op = "next" /\ ret = RetNone /\ size = 1 /\ steps = 0 /\ rng = 0

\* C7: from new(n), n >= 1, the block count is n less the number of events
\* next() has produced, and repeated next() reaches the one-block state, which
\* it does with exactly n-1 events produced.
C7_TerminatesAfterNMinus1 ==
    /\ [](size >= 1 =>
            /\ amount_of_sets(state) = size - steps
            /\ steps <= size - 1)
    /\ [](size >= 1 => <>(is_terminal(Self) /\ steps = size - 1))

\* C7 witness: new(MaxN) stepped to its one-block state.
C7_Witness ==
    is_terminal(Self) /\ size = MaxN /\ steps = MaxN - 1 /\ op = "next"

\* Disjoint, non-empty blocks that cover 0 .. n-1.
IsPartitionOf(p, n) ==
    /\ UNION p = FullBlock(n)
    /\ {} \notin p
    /\ \A a \in p, b \in p : a /= b => a \cap b = {}

\* C8: from new(n), n >= 1, under next() and generate_realization() the state
\* is a partition of 0 .. n-1 of 1 to n blocks, no call panics, and the block
\* count never increases.
C8_PartitionInvariant ==
    /\ [](FromNew =>
            /\ IsPartitionOf(state, size)
            /\ amount_of_sets(state) >= 1
            /\ amount_of_sets(state) <= size
            /\ ret /= RetPanic)
    /\ [][(FromNew /\ op' \in {"next", "generate_realization"}) =>
            amount_of_sets(state') <= amount_of_sets(state)]_vars

\* C8 witness: new(MaxN) merged down to one block by next().
C8_Witness ==
    /\ FromNew /\ size = MaxN /\ ret.kind = "some"
    /\ state = {FullBlock(MaxN)}

\* C9: next() on one copy changes neither the partition nor the source
\* cursor of the other copy, and a copy's state depends on its own cursor
\* alone: copies at the same cursor hold the same partition.
C9_CloneIndependent ==
    /\ [][op' = "other.next" => (state' = state /\ rng' = rng)]_vars
    /\ [][(op' = "next" /\ other.live) => other' = other]_vars
    /\ [](other.live /\ other.self.rng = rng => other.self.state = state)

\* C9 witness: both copies have stepped, the clone further than the process.
C9_Witness ==
    /\ other.live /\ op = "other.next"
    /\ rng = 1 /\ other.self.rng = 2

\* C10: set_state(p) makes the state equal to p and keeps the source; next()
\* never changes the partition the caller kept, and the caller's changes to
\* it never change the state.
C10_SetStateCopies ==
    /\ [][op' = "set_state" => (state' = kept' /\ rng' = rng)]_vars
    /\ [][op' = "next" => kept' = kept]_vars
    /\ [][op' = "caller.union" => (state' = state /\ rng' = rng)]_vars

\* C10 witness: after set_state(p), next() has merged two blocks of the state
\* and the caller's p is as it was.
C10_Witness ==
    /\ op = "next" /\ ret.kind = "some" /\ steps = -1 /\ rng >= 2
    /\ kept /= state /\ amount_of_sets(kept) = amount_of_sets(state) + 1

\* C11: when a next() panics inside generate_realization(), at the first draw
\* or after some merges, on a failing source or on a partition of no block,
\* the process has the partition and the source cursor it had before the call.
C11_FailureKeepsState ==
    [][(op' = "generate_realization" /\ ret' = RetPanic)
          => (state' = state /\ rng' = rng)]_vars

\* C11 witness: on a fresh new(3) the call has panicked at its second draw,
\* after the first merge: one word of the stream is fixed, the second is not.
C11_Witness ==
    /\ op = "generate_realization" /\ ret = RetPanic
    /\ size = 3 /\ steps = 0 /\ rng = 0 /\ Len(tape) = 1

\* C12 (as claimed): new(0, rng) fails; it returns no process.
C12_NewZeroFails == (op = "new" /\ size = 0) => ret = RetPanic

\* The pairs (i, j) of set indices with 0 <= i < j < k.
PairsOf(k) == {pr \in (0 .. (k - 1)) \X (0 .. (k - 1)) : pr[1] < pr[2]}

\* Lexicographic order of pairs.
LexLess(a, b) == a[1] < b[1] \/ (a[1] = b[1] /\ a[2] < b[2])

\* The partition p with its i-th and j-th sets (0-based, in the order of
\* all_sets) replaced by their union, and every other set kept.
MergeBlocks(p, i, j) ==
    LET s == all_sets(p)
    IN  (p \ {nth(s, i), nth(s, j)}) \cup {nth(s, i) \cup nth(s, j)}

\* C13: with k >= 2 blocks every word of the source is scaled into
\* [0, k(k-1)/2), and r |-> the r-th pair is a bijection from that range onto
\* the pairs i < j < k, in lexicographic order; an event-producing next()
\* merges the two distinct blocks of one such pair, the r-th for the r drawn
\* from the word at the cursor when that word is already fixed.
C13_PairMapping ==
    /\ [](amount_of_sets(state) >= 2 =>
            LET k == amount_of_sets(state)
                tc == tuple_combinations(k)
            IN  /\ Len(tc) = pair_count(k)
                /\ {tc[r] : r \in 1 .. Len(tc)} = PairsOf(k)
                /\ \A r \in 1 .. Len(tc), q \in 1 .. Len(tc) :
                      r < q => LexLess(tc[r], tc[q])
                /\ \A w \in Words :
                      gen_range(w, pair_count(k)) \in 0 .. (pair_count(k) - 1))
    /\ [][(op' = "next" /\ ret'.kind = "some") =>
            LET k == amount_of_sets(state)
                tc == tuple_combinations(k)
                known == (rng + 1) \in DOMAIN Stream(tape)
            IN  \E r \in 0 .. (pair_count(k) - 1) :
                   /\ nth(tc, r) \in PairsOf(k)
                   /\ state' = MergeBlocks(state, nth(tc, r)[1], nth(tc, r)[2])
                   /\ known =>
                         r = gen_range(Stream(tape)[rng + 1], pair_count(k))]_vars

\* C13 witness: a next() on three blocks whose word was fixed by an earlier
\* realization has merged the last pair, (1, 2).
C13_Witness ==
    /\ op = "next" /\ ret.kind = "some" /\ size = 3 /\ steps = 1
    /\ state = {{0}, {1, 2}} /\ Len(tape) = 1

\* C14: next() on the current partition with the pair (i, j) drawn replaces
\* the i-th and j-th blocks by their union and keeps every other block, the
\* representatives passed to union being the first elements of those two
\* blocks; every event-producing next() keeps the elements of the partition,
\* joins two distinct blocks, leaves the others as they were, and returns the
\* partition it leaves.
C14_StepFrame ==
    /\ [](amount_of_sets(state) >= 2 =>
            \A w \in Words :
               LET k == amount_of_sets(state)
                   pair == nth(tuple_combinations(k),
                               gen_range(w, pair_count(k)))
                   set_1 == nth(all_sets(state), pair[1])
                   set_2 == nth(all_sets(state), pair[2])
               IN  /\ value_index(state, pair[1]) \in set_1
                   /\ value_index(state, pair[2]) \in set_2
                   /\ \A x \in set_1 : value_index(state, pair[1]) <= x
                   /\ \A x \in set_2 : value_index(state, pair[2]) <= x
                   /\ next_some(Self, w, 1).self.state
                         = MergeBlocks(state, pair[1], pair[2]))
    /\ [][(op' = "next" /\ ret'.kind = "some") =>
            /\ UNION state' = UNION state
            /\ ret'.item.partition = state'
            /\ \E A \in state, B \in state :
                  /\ A /= B
                  /\ state' = (state \ {A, B}) \cup {A \cup B}
                  /\ (state \ {A, B}) \subseteq state'
                  /\ amount_of_sets(state') = amount_of_sets(state) - 1]_vars

\* C14 witness: next() on the three singletons has joined the first and the
\* last block and left {1} as it was.
C14_Witness ==
    /\ op = "next" /\ ret.kind = "some" /\ size = 3 /\ steps = 1
    /\ state = {{0, 2}, {1}} /\ ret.item.partition = state

\* q is p with two distinct blocks replaced by their union.
OneMerge(p, q) ==
    \E A \in p, B \in p : A /= B /\ q = (p \ {A, B}) \cup {A \cup B}

\* C15: the partition of an event is the state right after its merge; the
\* entries of a realization differ each from the one before by one merge, the
\* first being the state the process is put back to; and a partition the
\* caller took from an event or a realization is changed neither by later
\* next() calls nor by generate_realization().
C15_EventsAreSnapshots ==
    /\ [][(op' = "next" /\ ret'.kind = "some") =>
             ret'.item.partition = state']_vars
    /\ []((op = "generate_realization" /\ ret.kind = "vec") =>
             /\ ret.items[1].partition = state
             /\ \A i \in 1 .. (Len(ret.items) - 1) :
                   OneMerge(ret.items[i].partition, ret.items[i + 1].partition))
    /\ [][op' \in {"next", "generate_realization"} => kept' = kept]_vars

\* C15 witness: the caller holds the two-block partition of an event of
\* new(3), and a later next() has taken the process on to one block.
C15_Witness ==
    /\ op = "next" /\ ret.kind = "some" /\ size = 3
    /\ amount_of_sets(kept) = 2 /\ state = {FullBlock(3)}

\* C16: a next() that returns an event moves the cursor of the process's own
\* source by exactly one word and any other next() by none; the partition it
\* leaves is the same whatever time thread_rng() yields; and two copies with
\* equal own-source cursors hold equal partitions, whatever times each drew.
C16_OwnSourceForPairOnly ==
    /\ [][op' = "next" =>
             rng' = rng + (IF ret'.kind = "some" THEN 1 ELSE 0)]_vars
    /\ [][op' = "other.next" =>
             other'.self.rng = other.self.rng
                                + (IF ret'.kind = "some" THEN 1 ELSE 0)]_vars
    /\ [](amount_of_sets(state) >= 2 =>
            \A w \in Words, t1 \in Times, t2 \in Times :
               next_some(Self, w, t1).self = next_some(Self, w, t2).self)
    /\ []((other.live /\ other.self.rng = rng) => other.self.state = state)

\* C16 witness: a process of three elements and its clone have each made
\* their two merges and hold the same partition.
C16_Witness ==
    /\ other.live /\ op = "other.next" /\ ret.kind = "some" /\ size = 3
    /\ rng = 2 /\ other.self.rng = 2 /\ other.self.state = state

\* C17: the rate of the time of an event is the block count before its
\* merge, one more than the count after it; from new(n) the events of next()
\* use the rates n, n-1, ..., 2 in that order, and so do the steps behind the
\* entries of a realization of a fresh process; every time is positive.
C17_RateIsBlockCount ==
    /\ [][(op' = "next" /\ ret'.kind = "some") =>
             /\ ret'.rate = amount_of_sets(state)
             /\ ret'.rate = amount_of_sets(state') + 1
             /\ ret'.rate >= 2
             /\ ret'.item.time > 0
             /\ FromNew => ret'.rate = size - steps]_vars
    /\ []((op = "generate_realization" /\ ret.kind = "vec" /\ steps = 0) =>
             \A i \in 2 .. Len(ret.items), w \in Words :
                /\ next_some([state |-> ret.items[i - 1].partition,
                              rng |-> rng], w, 1).ret.rate = size - i + 2
                /\ ret.items[i].time > 0)

\* C17 witness: the one event of a process of two elements, at rate 2.
C17_Witness ==
    /\ op = "next" /\ ret.kind = "some" /\ size = 2 /\ steps = 1
    /\ ret.rate = 2 /\ state = {FullBlock(2)}

\* C18: a partition of no block, which is what new(0) builds, is not terminal
\* for next(); on it next() and generate_realization() panic: they return
\* neither None, nor an event, nor a realization, and leave the partition
\* and the source as they were.
C18_NoBlockAborts ==
    /\ []((op = "new" /\ size = 0) => state = {})
    /\ [](amount_of_sets(state) = 0 => (~is_terminal(Self) /\ panics(Self)))
    /\ [][(amount_of_sets(state) = 0
            /\ op' \in {"next", "generate_realization"}) =>
             (ret' = RetPanic /\ state' = state /\ rng' = rng)]_vars

\* C18 witness: generate_realization() has panicked on a process built with
\* three elements whose state set_state replaced by the empty partition.
C18_Witness ==
    /\ op = "generate_realization" /\ ret = RetPanic
    /\ state = {} /\ kept = {} /\ size = 3 /\ steps = -1

\* C19: on a partition P of k >= 1 blocks, reached by next() calls or put
\* by set_state, generate_realization() returns k entries: (0.0, P), then
\* entries of k-1, ..., 1 blocks, the last being the single block of all the
\* elements of P; P is the state after the call.
C19_RealizationFromAnyState ==
    (op = "generate_realization" /\ amount_of_sets(state) >= 1) =>
        /\ ret.kind = "vec"
        /\ Len(ret.items) = amount_of_sets(state)
        /\ ret.items[1] = [time |-> 0, partition |-> state]
        /\ \A i \in 1 .. Len(ret.items) :
              amount_of_sets(ret.items[i].partition)
                 = amount_of_sets(state) - i + 1
        /\ ret.items[Len(ret.items)].partition = {UNION state}

\* C19 witness: a realization of two entries from a two-block partition of
\* three elements that set_state put in place.
C19_Witness ==
    /\ op = "generate_realization" /\ steps = -1 /\ size = 3
    /\ ret.kind = "vec" /\ Len(ret.items) = 2
    /\ amount_of_sets(state) = 2 /\ kept = state
====
